---------------------------- MODULE Spec2Model ----------------------------
(***************************************************************************)
(* Email-verification and pending-registration lifecycle of SwapSavvy Pro. *)
(*                                                                         *)
(* The model follows app/routes/auth.py (signup, verify_code, resend_code) *)
(* and app/services/user_service.py (create_pending_user,                  *)
(* create_verification_code, verify_pending_user); run.py holds the same   *)
(* handlers inlined in one file.                                           *)
(*                                                                         *)
(* Time is counted in whole minutes.  A request is a sequence of steps;    *)
(* every step is one pass through the limiter, one database statement (a   *)
(* SELECT, or the statements of one commit), one access to the             *)
(* process-local throttle map, or one call of the mailer; a step that      *)
(* touches only memory of the process is joined to the database statement  *)
(* that follows it.  The database is the default                           *)
(* SQLite store (config.py:9): a commit is atomic, a statement sees the    *)
(* last committed state, and an INTEGER PRIMARY KEY is max(id)+1, so the   *)
(* id of a deleted last row is handed out again.  The session cookie is    *)
(* signed with a key that has a public default (config.py:6), and a        *)
(* browser keeps the cookie of an earlier response, so a verify or resend  *)
(* request can carry any pending id.                                       *)
(***************************************************************************)
EXTENDS Integers, Sequences, FiniteSets, TLC

(* ------------------------------ bounds -------------------------------- *)

\* pending_users.id ranges over 1..MaxId
MaxId == 2
\* the clock stops at MaxTime minutes
MaxTime == 70
\* random.randint(0, 9999) of generate_assigned_id is drawn from 0..MaxSuffix
MaxSuffix == 1
\* signup requests served in a run
MaxSignups == 2
\* verify requests served in a run of Spec, SpecMix and SpecRun
MaxVerifies == 2
\* the clock of SpecLate stops at LateTime minutes
LateTime == 20
\* verify requests served in a run of SpecLate
MaxLateVerifies == 3
\* resend requests served in a run of SpecMix
MaxMixResends == 1
\* verify requests served in a run of SpecDup
MaxDupVerifies == 6
\* resend requests served in a run of SpecDup
MaxDupResends == 2
\* SpecOld: the clock ticks up to MaxOldTick before the long wait and up to
\* MaxOldTime after it
MaxOldTick == 10
MaxOldTime == 1450
\* signup requests the client of SpecSeq and SpecHour sends in one minute
MaxSeqSignups == 2
\* SpecReuse: the clock ticks up to ReuseTick and then jumps to ReuseTime;
\* verify and resend requests served in a run
ReuseTick == 10
ReuseTime == 60
MaxReuseVerifies == 1
MaxReuseResends == 4
\* requests one address sends beyond the limit of an endpoint in one window
MaxRefused == 1
\* profile updates served in a run
MaxRenames == 1

(* ------------------------- program constants -------------------------- *)

\* timedelta(minutes=10): lifetime of a verification code, in minutes
CODE_TTL == 10
\* 3600 seconds: the resend window, in minutes
RESEND_WINDOW == 60
\* timedelta(hours=24): PendingUser.expires_at - created_at, in minutes
PENDING_TTL == 1440
\* count >= 3: resends admitted before the window is enforced
MAX_RESENDS == 3
\* verification.attempts >= 5
MAX_ATTEMPTS == 5
\* len(password) < 8
MIN_PASSWORD_LEN == 8
\* f"{...:06d}": width of a verification code
CODE_WIDTH == 6
\* @limiter.limit("5 per minute") of signup: requests and minutes
SIGNUP_LIMIT == 5
SIGNUP_PERIOD == 1
\* @limiter.limit("3 per hour") of resend_code: requests and minutes
RESEND_LIMIT == 3
RESEND_PERIOD == 60

(* ----------------------------- input sets ----------------------------- *)

Procs == {"r1", "r2"}
PendingIds == 1..MaxId
Usernames == {"alice", "bob"}
Emails == {"a@x.com", "b@x.com"}
\* passwords as character sequences: one too short, one long enough
Passwords == {<<"p", "w">>, <<"p", "a", "s", "s", "w", "o", "r", "d">>}
\* values random.randint(0, 999999) may return
CodeNums == {7, 123456}
\* minutes the clock may advance by in one step
Deltas == {10}
\* get_remote_address(): the addresses requests come from
Addrs == {"10.0.0.1"}
\* usernames a profile update may ask for
ProfileNames == Usernames \cup {"carol"}

(* ------------------------------ strings ------------------------------- *)

DigitChar == <<"0", "1", "2", "3", "4", "5", "6", "7", "8", "9">>

RECURSIVE Pow10(_)
Pow10(k) == IF k = 0 THEN 1 ELSE 10 * Pow10(k - 1)

RECURSIVE Digits(_)
\* str(n) as a sequence of characters
Digits(n) == IF n < 10 THEN <<DigitChar[n + 1]>>
             ELSE Digits(n \div 10) \o <<DigitChar[(n % 10) + 1]>>

\* f"{n:06d}": zero-padded on the left to at least CODE_WIDTH characters
Format06(n) ==
    LET d == Digits(n)
    IN  IF Len(d) >= CODE_WIDTH THEN d
        ELSE [i \in 1..(CODE_WIDTH - Len(d)) |-> "0"] \o d

\* the characters str.isspace() holds for; those without an escape are
\* written by their code point
Whitespace ==
    {" ", "\t", "\n", "\r", "\f", "U+000B", "U+001C", "U+001D", "U+001E",
     "U+001F", "U+0085", "U+00A0", "U+1680", "U+2000", "U+2001", "U+2002",
     "U+2003", "U+2004", "U+2005", "U+2006", "U+2007", "U+2008", "U+2009",
     "U+200A", "U+2028", "U+2029", "U+202F", "U+205F", "U+3000"}

RECURSIVE LStrip(_)
LStrip(s) == IF s # <<>> /\ Head(s) \in Whitespace THEN LStrip(Tail(s)) ELSE s

RECURSIVE RStrip(_)
RStrip(s) == IF s # <<>> /\ s[Len(s)] \in Whitespace
             THEN RStrip(SubSeq(s, 1, Len(s) - 1)) ELSE s

\* str.strip()
Strip(s) == RStrip(LStrip(s))

\* what a client may type into the code field
SubmittedCodes ==
    {Format06(n) : n \in CodeNums}
        \cup {Digits(7), <<"\t", " ">> \o Format06(7) \o <<" ", "\n">>}

(* ------------------------------- state -------------------------------- *)

VARIABLES
    users,           \* rows of table users
    pendings,        \* rows of table pending_users
    verifications,   \* rows of table email_verifications
    recent_resends,  \* the process-local throttle map of auth.py:12
    limits,          \* the windows of the limiter, per endpoint and address
    now,             \* datetime.utcnow(), in minutes
    pc,              \* position of each request
    req,             \* input of each request
    pending,         \* the PendingUser object a request has loaded
    verification,    \* the EmailVerification object a request has loaded
    code,            \* the plaintext code a request has generated
    current_time,    \* the time resend_code has read for the throttle
    cascade,         \* ids of the verifications db.session.delete(pending)
                     \* has loaded for its cascade
    seen,            \* the throttle entry resend_code has read for its
                     \* update (NoEntry: the key was not in the map)
    profile,         \* the profile update in flight: the account it has
                     \* loaded and the username of its form
    sent,            \* the mails a request has handed to the mailer
    result,          \* outcome of a finished request
    grants,          \* history: per pending id, the times of the resends
                     \* admitted since the pending registration was created
    wrong,           \* history: per pending id, the submissions that failed
                     \* the comparison with its current code
    unlocked,        \* history: per pending id, whether a resend has
                     \* replaced a code that was locked
    served           \* requests served so far in a run

vars == <<users, pendings, verifications, recent_resends, limits, now,
          pc, req, pending, verification, code, current_time, cascade,
          seen, profile, sent, result, grants, wrong, unlocked, served>>

history == <<grants, wrong, unlocked>>

db == <<users, pendings, verifications>>
locals == <<pending, verification, code, current_time, cascade, seen>>
env == <<now, profile>>

None == [id |-> 0]
NoReq == [op |-> "none"]
NoCode == <<>>
\* recent_resends has no entry for the key
NoEntry == <<>>
\* the limiter has no window for the key
NoWindow == <<>>

(* ------------------------------ queries ------------------------------- *)

\* Model.query.filter_by(...).first() is not None
UserWithEmail(e) == \E u \in users : u.email = e
UserWithUsername(n) == \E u \in users : u.username = n
PendingWithEmail(e) == \E q \in pendings : q.email = e
PendingWithUsername(n) == \E q \in pendings : q.username = n

\* mutant of PendingGet: a row past its own expires_at is not found
PendingGet_Unexpired(id) ==
    IF \E q \in pendings : q.id = id /\ now <= q.expires_at
    THEN CHOOSE q \in pendings : q.id = id
    ELSE None

\* mutant of PendingGet: a missing id is answered with the newest row
PendingGet_Newest(id) ==
    IF pendings = {} THEN None
    ELSE IF \E q \in pendings : q.id = id
         THEN CHOOSE q \in pendings : q.id = id
         ELSE CHOOSE q \in pendings : \A r \in pendings : r.id <= q.id

\* PendingUser.query.get(id)
PendingGet(id) ==
    IF \E q \in pendings : q.id = id
    THEN CHOOSE q \in pendings : q.id = id
    ELSE None

\* INTEGER PRIMARY KEY of a new row: max(id) + 1
NextId(rows) ==
    IF rows = {} THEN 1
    ELSE (CHOOSE i \in {r.id : r \in rows} : \A r \in rows : r.id <= i) + 1

VerificationsOf(pid) == {v \in verifications : v.pending_user_id = pid}

\* created_at is set when the row is inserted, expires_at ten minutes later
created_at(v) == v.expires_at - CODE_TTL

\* the rows that .order_by(created_at.desc()).first() may return
LatestVerifications(pid) ==
    {v \in VerificationsOf(pid) :
        \A w \in VerificationsOf(pid) : created_at(w) <= created_at(v)}

\* mutant of is_expired: a code is dead from the minute it expires
is_expired_AtExpiry(v, t) == t >= v.expires_at

\* EmailVerification.is_expired
is_expired(v, t) == t > v.expires_at

\* (username.strip().lower() + "xxx")[:3]
Prefix(username) ==
    CASE username = "alice" -> "ali"
      [] username = "bob" -> "bob"

\* generate_assigned_id, lines 16 and 17: the two queries of one draw
UserWithAssignedId(c) == \E u \in users : u.assigned_id = c
PendingWithAssignedId(c) == \E q \in pendings : q.assigned_id = c

\* candidates generate_assigned_id may draw for a username
Candidates(username) == {<<Prefix(username), n>> : n \in 0..MaxSuffix}

(* ------------------------------- Init --------------------------------- *)

Init ==
    /\ users = {}
    /\ pendings = {}
    /\ verifications = {}
    /\ recent_resends = [i \in PendingIds |-> NoEntry]
    /\ limits = [e \in {"signup", "resend"} |-> [a \in Addrs |-> NoWindow]]
    /\ now = 0
    /\ pc = [p \in Procs |-> "idle"]
    /\ req = [p \in Procs |-> NoReq]
    /\ pending = [p \in Procs |-> None]
    /\ verification = [p \in Procs |-> None]
    /\ code = [p \in Procs |-> NoCode]
    /\ current_time = [p \in Procs |-> 0]
    /\ cascade = [p \in Procs |-> {}]
    /\ seen = [p \in Procs |-> NoEntry]
    /\ profile = None
    /\ sent = [p \in Procs |-> {}]
    /\ result = [p \in Procs |-> "none"]
    /\ grants = [i \in PendingIds |-> <<>>]
    /\ wrong = [i \in PendingIds |-> 0]
    /\ unlocked = [i \in PendingIds |-> FALSE]
    /\ served = [o \in {"signup", "verify", "resend", "rename"} |-> 0]

\* the windows of the limiter at time t: the storage drops a window when
\* it has run out
Expire(l, t) ==
    [e \in DOMAIN l |->
        [a \in DOMAIN l[e] |->
            IF l[e][a] # NoWindow /\ l[e][a][1] <= t THEN NoWindow
            ELSE l[e][a]]]

\* the clock advances, up to max
TickTo(max) ==
    /\ \E d \in Deltas : now + d <= max /\ now' = now + d
    /\ limits' = Expire(limits, now')
    /\ UNCHANGED <<db, recent_resends, profile, pc, req, locals, sent,
                   result, history>>

\* the clock advances
Tick == TickTo(MaxTime)

\* the clock advances by d minutes
Wait(d) ==
    /\ now' = now + d
    /\ limits' = Expire(limits, now')
    /\ UNCHANGED <<db, recent_resends, profile, pc, req, locals, sent,
                   result, history>>

\* the clock advances by the lifetime of a pending registration
Sleep == Wait(PENDING_TTL)

\* a request ends: pc, outcome, and the objects of its session are set
Finish(p, r) ==
    /\ pc' = [pc EXCEPT ![p] = "done"]
    /\ result' = [result EXCEPT ![p] = r]

\* the response has been sent; the request slot is free again
Return(p) ==
    /\ pc[p] = "done"
    /\ pc' = [pc EXCEPT ![p] = "idle"]
    /\ req' = [req EXCEPT ![p] = NoReq]
    /\ pending' = [pending EXCEPT ![p] = None]
    /\ verification' = [verification EXCEPT ![p] = None]
    /\ code' = [code EXCEPT ![p] = NoCode]
    /\ current_time' = [current_time EXCEPT ![p] = 0]
    /\ cascade' = [cascade EXCEPT ![p] = {}]
    /\ seen' = [seen EXCEPT ![p] = NoEntry]
    /\ sent' = [sent EXCEPT ![p] = {}]
    /\ result' = [result EXCEPT ![p] = "none"]
    /\ UNCHANGED <<db, recent_resends, limits, env, grants, wrong, unlocked>>


(* ------------------------------ limiter ------------------------------- *)

\* the window of a key after a request at time t (fixed window of the
\* in-memory storage): a window that has run out is dropped, the first
\* request of a window sets its end, every request is counted
Hit(window, period, t) ==
    IF window = NoWindow \/ window[1] <= t
    THEN <<t + period, 1>>
    ELSE <<window[1], window[2] + 1>>

\* the request is let through to the handler; otherwise RateLimitExceeded
\* is raised and the handler of 429 answers
WithinLimit(window, limit) == window[2] <= limit

\* app/__init__.py:133-135: the handler of 429 calls render_template, a
\* name the module does not import (line 1); the NameError is answered as
\* a server error
ratelimit_handler == "Error"

\* run.py:2048-2050: the handler of 429 renders the error page
run_ratelimit_handler == "RateLimited"

\* the decorator @limiter.limit in front of a handler: the request of
\* address addr is counted; a request over the limit is answered by the
\* handler of 429 with outcome refused, any other enters the handler at pc
\* value next
limiter_limit(p, endpoint, addr, period, limit, refused, next) ==
    LET w == Hit(limits[endpoint][addr], period, now)
    IN  /\ limits' = [limits EXCEPT ![endpoint][addr] = w]
        /\ IF WithinLimit(w, limit)
           THEN /\ pc' = [pc EXCEPT ![p] = next]
                /\ UNCHANGED result
           ELSE Finish(p, refused)

(* ------------------------------ signup -------------------------------- *)

\* auth.py:52-58: the validation of the two password fields
validate(password, confirm_password) ==
    IF password # confirm_password THEN "PasswordMismatch"
    ELSE IF Len(password) < MIN_PASSWORD_LEN THEN "PasswordTooShort"
    ELSE "ok"

\* GET /signup: the limiter counts the request (auth.py:41) and the form
\* is rendered, or the request is answered by the handler of 429
signup_form ==
    /\ \E addr \in Addrs :
        limits' = [limits EXCEPT !["signup"][addr] =
                      Hit(limits["signup"][addr], SIGNUP_PERIOD, now)]
    /\ UNCHANGED <<db, recent_resends, env, pc, req, locals, sent, result,
                   history>>

\* POST /signup arrives with its form: the limiter counts the request
\* before the handler runs
signup_arrives(p, refused) ==
    /\ pc[p] = "idle"
    /\ \E addr \in Addrs, username \in Usernames, email \in Emails,
          password \in Passwords, confirm_password \in Passwords :
        /\ limiter_limit(p, "signup", addr, SIGNUP_PERIOD, SIGNUP_LIMIT,
                         refused, "s_user_email")
        /\ req' = [req EXCEPT ![p] = [op |-> "signup",
                                      username |-> username,
                                      email |-> email,
                                      password |-> password,
                                      confirm_password |-> confirm_password]]
    /\ UNCHANGED <<db, recent_resends, env, locals, sent, history>>

\* auth.py:41: POST /signup behind its limiter
signup(p) == signup_arrives(p, ratelimit_handler)

\* run.py:632: POST /signup behind its limiter
run_signup(p) == signup_arrives(p, run_ratelimit_handler)

\* auth.py:44-61: the form fields are read and validated; first query of
\* line 61: an account with the email.  The password fields are not read
\* again by the steps modelled here.
signup_user_email(p) ==
    /\ pc[p] = "s_user_email"
    /\ LET r == validate(req[p].password, req[p].confirm_password)
       IN  IF r # "ok" THEN Finish(p, r)
           ELSE IF UserWithEmail(req[p].email) THEN Finish(p, "EmailTaken")
           ELSE /\ pc' = [pc EXCEPT ![p] = "s_pending_email"]
                /\ UNCHANGED result
    /\ req' = [req EXCEPT ![p] = [op |-> "signup",
                                  username |-> req[p].username,
                                  email |-> req[p].email]]
    /\ UNCHANGED <<db, recent_resends, limits, env, locals, sent, history>>

\* one further existence query of signup: the request ends with outcome r
\* when the query finds a row, and goes on to pc value next otherwise
signup_query(p, at, found, r, next) ==
    /\ pc[p] = at
    /\ IF found THEN Finish(p, r)
       ELSE /\ pc' = [pc EXCEPT ![p] = next]
            /\ UNCHANGED result
    /\ UNCHANGED <<db, recent_resends, limits, env, req, locals, sent,
                   history>>

\* auth.py:61, second query: a pending registration with the email
signup_pending_email(p) ==
    signup_query(p, "s_pending_email", PendingWithEmail(req[p].email),
                 "EmailTaken", "s_user_username")

\* auth.py:65, first query: an account with the username
signup_user_username(p) ==
    signup_query(p, "s_user_username", UserWithUsername(req[p].username),
                 "UsernameTaken", "s_pending_username")

\* auth.py:65, second query: a pending registration with the username
signup_pending_username(p) ==
    signup_query(p, "s_pending_username",
                 PendingWithUsername(req[p].username),
                 "UsernameTaken", "s_generate_id")

\* UserService.generate_assigned_id, line 16: a candidate is drawn and
\* looked for among the accounts.  A candidate that is taken is drawn
\* again; the request ends with the RuntimeError of line 19 when the draws
\* that are left all find taken candidates.
generate_assigned_id(p) ==
    /\ pc[p] = "s_generate_id"
    /\ \E c \in Candidates(req[p].username) :
          IF UserWithAssignedId(c)
          THEN /\ \/ Finish(p, "Error")
                  \/ UNCHANGED <<pc, result>>
               /\ UNCHANGED req
          ELSE /\ req' = [req EXCEPT ![p] =
                             [op |-> "signup", username |-> req[p].username,
                              email |-> req[p].email, assigned_id |-> c]]
               /\ pc' = [pc EXCEPT ![p] = "s_generate_id_pending"]
               /\ UNCHANGED result
    /\ UNCHANGED <<db, recent_resends, limits, env, locals, sent, history>>

\* UserService.generate_assigned_id, line 17: the candidate is looked for
\* among the pending registrations; a free candidate is returned, a taken
\* one is drawn again or exhausts the draws
generate_assigned_id_pending(p) ==
    /\ pc[p] = "s_generate_id_pending"
    /\ IF PendingWithAssignedId(req[p].assigned_id)
       THEN \/ Finish(p, "Error")
            \/ /\ pc' = [pc EXCEPT ![p] = "s_generate_id"]
               /\ UNCHANGED result
       ELSE /\ pc' = [pc EXCEPT ![p] = "s_insert"]
            /\ UNCHANGED result
    /\ UNCHANGED <<db, recent_resends, limits, env, req, locals, sent,
                   history>>

\* UserService.create_pending_user, lines 36-50: INSERT and commit; the
\* unique index on pending_users.assigned_id turns a duplicate into an
\* IntegrityError, which signup reports after a rollback.
create_pending_user(p) ==
    /\ pc[p] = "s_insert"
    /\ IF \E q \in pendings : q.assigned_id = req[p].assigned_id
       THEN /\ Finish(p, "Error")
            /\ UNCHANGED <<pendings, pending, grants, unlocked>>
       ELSE LET row == [id |-> NextId(pendings),
                        username |-> req[p].username,
                        email |-> req[p].email,
                        assigned_id |-> req[p].assigned_id,
                        expires_at |-> now + PENDING_TTL,
                        status |-> "pending"]
            IN  /\ pendings' = pendings \cup {row}
                /\ pending' = [pending EXCEPT ![p] = row]
                /\ grants' = [grants EXCEPT ![row.id] = <<>>]
                /\ unlocked' = [unlocked EXCEPT ![row.id] = FALSE]
                /\ pc' = [pc EXCEPT ![p] = "s_reload"]
                /\ UNCHANGED result
    /\ UNCHANGED <<users, verifications, recent_resends, limits, env, req,
                   verification, code, current_time, cascade, seen, sent,
                   wrong>>

\* auth.py:74: pending.id is read from the object that the commit of
\* create_pending_user (user_service.py:45) has expired, so the row is
\* loaded again by its primary key; a row that is gone raises
\* ObjectDeletedError, which signup catches (auth.py:87-91)
signup_reload(p) ==
    /\ pc[p] = "s_reload"
    /\ LET cur == PendingGet(pending[p].id)
       IN  IF cur = None
           THEN /\ Finish(p, "Error")
                /\ UNCHANGED pending
           ELSE /\ pending' = [pending EXCEPT ![p] = cur]
                /\ pc' = [pc EXCEPT ![p] = "s_code"]
                /\ UNCHANGED result
    /\ UNCHANGED <<db, recent_resends, limits, env, req, verification, code,
                   current_time, cascade, seen, sent, history>>

(* ----------------------- create_verification_code --------------------- *)

\* mutant of NewVerification: the new row starts with its attempts used up
NewVerification_Locked(id, pid, c, t) ==
    [id |-> id, pending_user_id |-> pid, code |-> c,
     attempts |-> MAX_ATTEMPTS, expires_at |-> t + CODE_TTL]

\* the row create_verification_code builds: attempts defaults to 0
NewVerification(id, pid, c, t) ==
    [id |-> id, pending_user_id |-> pid, code |-> c, attempts |-> 0,
     expires_at |-> t + CODE_TTL]

\* mutant of create_verification_code: the DELETE of line 145 is forgotten
create_verification_code_NoDelete(pid, c, t) ==
    verifications \cup {NewVerification(NextId(verifications), pid, c, t)}

\* UserService.create_verification_code: table email_verifications after
\* DELETE of the rows of pid, INSERT of the new row, and commit
create_verification_code(pid, c, t) ==
    LET kept == verifications \ VerificationsOf(pid)
    IN  kept \cup {NewVerification(NextId(kept), pid, c, t)}

\* auth.py:74: signup issues the first code of its pending registration
signup_issue_code(p) ==
    /\ pc[p] = "s_code"
    /\ \E n \in CodeNums :
        /\ verifications' =
              create_verification_code(pending[p].id, Format06(n), now)
        /\ code' = [code EXCEPT ![p] = Format06(n)]
    /\ wrong' = [wrong EXCEPT ![pending[p].id] = 0]
    /\ pc' = [pc EXCEPT ![p] = "s_mail"]
    /\ UNCHANGED <<users, pendings, recent_resends, limits, env, req, pending,
                   verification, current_time, cascade, seen, sent, result,
                   grants,
                   unlocked>>

\* run.py:675-687: signup issues the first code with the statements of
\* create_verification_code inlined, and keeps the EmailVerification object
run_signup_issue_code(p) ==
    /\ pc[p] = "s_code"
    /\ \E n \in CodeNums :
        /\ verifications' =
              create_verification_code(pending[p].id, Format06(n), now)
        /\ code' = [code EXCEPT ![p] = Format06(n)]
    /\ verification' =
          [verification EXCEPT ![p] =
              CHOOSE v \in verifications' :
                  /\ v.pending_user_id = pending[p].id
                  /\ v.code = code'[p]]
    /\ wrong' = [wrong EXCEPT ![pending[p].id] = 0]
    /\ pc' = [pc EXCEPT ![p] = "s_mail"]
    /\ UNCHANGED <<users, pendings, recent_resends, limits, env, req, pending,
                   current_time, cascade, seen, sent, result, grants, unlocked>>

\* auth.py:74, 87-91: create_verification_code raises (its DELETE, INSERT
\* or commit fails in the database); signup catches the exception and
\* rolls back the open transaction, which holds no change of the pending
\* registration committed at user_service.py:46
signup_issue_code_fails(p) ==
    /\ pc[p] = "s_code"
    /\ Finish(p, "Error")
    /\ UNCHANGED <<db, recent_resends, limits, env, req, locals, sent, history>>

\* auth.py:76, the arguments of the mailer call: pending.email and
\* pending.username are read from the row as it is stored now (the commit
\* of create_verification_code has expired the object); a row that is gone
\* raises ObjectDeletedError, which signup catches
signup_reload_for_mail(p) ==
    /\ pc[p] = "s_mail"
    /\ LET cur == PendingGet(pending[p].id)
       IN  IF cur = None
           THEN /\ Finish(p, "Error")
                /\ UNCHANGED pending
           ELSE /\ pending' = [pending EXCEPT ![p] = cur]
                /\ pc' = [pc EXCEPT ![p] = "s_deliver"]
                /\ UNCHANGED result
    /\ UNCHANGED <<db, recent_resends, limits, env, req, verification, code,
                   current_time, cascade, seen, sent, history>>

\* auth.py:76-80: EmailService.send_verification_email returns True, and
\* the pending id goes into the session, or False
signup_send_mail(p) ==
    /\ pc[p] = "s_deliver"
    /\ \/ /\ sent' = [sent EXCEPT ![p] =
                        @ \cup {<<"code", pending[p].email, code[p]>>}]
          /\ Finish(p, "Sent")
       \/ /\ pc' = [pc EXCEPT ![p] = "s_cleanup"]
          /\ UNCHANGED <<sent, result>>
    /\ UNCHANGED <<db, recent_resends, limits, env, req, locals, history>>

\* auth.py:82: db.session.delete(pending) loads the collection
\* pending.verifications, to which the delete cascades (models.py:261)
signup_cleanup(p) ==
    /\ pc[p] = "s_cleanup"
    /\ cascade' = [cascade EXCEPT ![p] =
                      {v.id : v \in VerificationsOf(pending[p].id)}]
    /\ pc' = [pc EXCEPT ![p] = "s_cleanup_commit"]
    /\ UNCHANGED <<db, recent_resends, limits, env, req, pending, verification,
                   code, current_time, seen, sent, result, history>>

\* mutant of signup_cleanup_commit: only the codes are deleted, the
\* pending registration stays
signup_cleanup_commit_KeepsPending(p) ==
    /\ pc[p] = "s_cleanup_commit"
    /\ verifications' = {v \in verifications : v.id \notin cascade[p]}
    /\ Finish(p, "DeliveryFailure")
    /\ UNCHANGED <<users, pendings, recent_resends, limits, env, req, locals,
                   sent, history>>

\* auth.py:83: the commit deletes the loaded verifications and the pending
\* registration, each by its primary key; a DELETE that matches no row is
\* reported as a warning only
signup_cleanup_commit(p) ==
    /\ pc[p] = "s_cleanup_commit"
    /\ pendings' = {q \in pendings : q.id # pending[p].id}
    /\ verifications' = {v \in verifications : v.id \notin cascade[p]}
    /\ Finish(p, "DeliveryFailure")
    /\ UNCHANGED <<users, recent_resends, limits, env, req, locals, sent,
                   history>>

\* run.py:695-696, 701-705: the commit of run.py:687 has expired the
\* EmailVerification object, and the flush of its DELETE reads the row
\* again by its primary key; when the row is gone the read raises
\* ObjectDeletedError, which signup catches: the session is rolled back,
\* the pending registration stays and the request ends with the error
\* message
run_signup_refresh_verification(p) ==
    /\ pc[p] = "s_cleanup"
    /\ IF \E v \in verifications : v.id = verification[p].id
       THEN /\ verification' =
                  [verification EXCEPT ![p] =
                      CHOOSE v \in verifications : v.id = verification[p].id]
            /\ pc' = [pc EXCEPT ![p] = "s_cleanup_delete"]
            /\ UNCHANGED result
       ELSE /\ Finish(p, "Error")
            /\ UNCHANGED verification
    /\ UNCHANGED <<db, recent_resends, limits, env, req, pending, code,
                   current_time, cascade, seen, sent, history>>

\* run.py:695-697: db.session.delete(verification), db.session.delete(pending)
\* and commit.  Loading pending.verifications for the cascade flushes the
\* DELETE of the verification first, so the statements from there to the
\* commit run under the write lock of the database: the verification object
\* is deleted by its primary key (a DELETE that matches no row is reported
\* as a warning only), then the rows the cascade finds, then the pending
\* registration by its primary key.
run_signup_cleanup(p) ==
    /\ pc[p] = "s_cleanup_delete"
    /\ pendings' = {q \in pendings : q.id # pending[p].id}
    /\ verifications' =
          {v \in verifications : /\ v.id # verification[p].id
                                 /\ v.pending_user_id # pending[p].id}
    /\ Finish(p, "DeliveryFailure")
    /\ UNCHANGED <<users, recent_resends, limits, env, req, locals, sent,
                   history>>

(* --------------------------- verify_code ------------------------------ *)

\* mutant of Expired: a code is honoured for a further CODE_TTL minutes
Expired_Grace(v, t) == v = None \/ t > v.expires_at + CODE_TTL

\* verify_pending_user, line 63
Expired(v, t) == v = None \/ is_expired(v, t)

\* mutant of Locked: the attempts are never looked at
Locked_Never(v) == FALSE

\* mutant of Locked: one attempt too many is let through
Locked_OffByOne(v) == v.attempts > MAX_ATTEMPTS

\* verify_pending_user, line 66
Locked(v) == v.attempts >= MAX_ATTEMPTS

\* verify_pending_user, line 69: the codes are compared as strings
CodeMatches(v, submitted) == v.code = submitted

\* verify_pending_user, lines 63-72: the decision taken on the loaded code
check_code(v, submitted, t) ==
    IF Expired(v, t) THEN "Expired"
    ELSE IF Locked(v) THEN "TooManyAttempts"
    ELSE IF ~CodeMatches(v, submitted) THEN "InvalidCode"
    ELSE "match"

\* POST /verify arrives: auth.py:97-108 loads the PendingUser of the session
\* and reads the code field; verify_pending_user, lines 55-57, finds the
\* same object
verify_code(p) ==
    /\ pc[p] = "idle"
    /\ \E pid \in PendingIds, c \in SubmittedCodes :
        /\ req' = [req EXCEPT ![p] = [op |-> "verify", pending_id |-> pid,
                                      code |-> Strip(c)]]
        /\ pending' = [pending EXCEPT ![p] = PendingGet(pid)]
        /\ IF PendingGet(pid) = None
           THEN Finish(p, "InvalidSession")
           ELSE /\ pc' = [pc EXCEPT ![p] = "v_load_code"]
                /\ UNCHANGED result
    /\ UNCHANGED <<db, recent_resends, limits, env, verification, code,
                   current_time, cascade, seen, sent, grants, wrong, unlocked>>

\* verify_pending_user, lines 59-69: the newest code of the pending
\* registration is loaded and judged
verify_load_code(p) ==
    /\ pc[p] = "v_load_code"
    /\ \E v \in IF VerificationsOf(pending[p].id) = {} THEN {None}
                ELSE LatestVerifications(pending[p].id) :
        LET r == check_code(v, req[p].code, now)
        IN  /\ verification' = [verification EXCEPT ![p] = v]
            /\ CASE r = "InvalidCode" ->
                      /\ pc' = [pc EXCEPT ![p] = "v_wrong"]
                      /\ wrong' = [wrong EXCEPT ![pending[p].id] = @ + 1]
                      /\ UNCHANGED result
                 [] r = "match" ->
                      /\ pc' = [pc EXCEPT ![p] = "v_check_user"]
                      /\ UNCHANGED <<result, wrong>>
                 [] OTHER -> Finish(p, r) /\ UNCHANGED wrong
    /\ UNCHANGED <<db, recent_resends, limits, env, req, pending, code,
                   current_time, cascade, seen, sent, grants, unlocked>>

\* mutant of IncrementAttempts: a wrong submission counts twice
IncrementAttempts_ByTwo(v) == [v EXCEPT !.attempts = v.attempts + 2]

\* verify_pending_user, line 70: attempts += 1 on the loaded object
IncrementAttempts(v) == [v EXCEPT !.attempts = v.attempts + 1]

\* verify_pending_user, lines 70-72: UPDATE ... SET attempts WHERE id, and
\* commit; an UPDATE that matches no row raises StaleDataError
verify_wrong_commit(p) ==
    /\ pc[p] = "v_wrong"
    /\ IF \E w \in verifications : w.id = verification[p].id
       THEN /\ verifications' =
                  {IF w.id = verification[p].id
                   THEN [w EXCEPT !.attempts =
                            IncrementAttempts(verification[p]).attempts]
                   ELSE w : w \in verifications}
            /\ Finish(p, "InvalidCode")
       ELSE /\ UNCHANGED verifications
            /\ Finish(p, "Error")
    /\ UNCHANGED <<users, pendings, recent_resends, limits, env, req, locals,
                   sent, history>>

\* verify_pending_user, line 75, first query: an account with the email
verify_check_user(p) ==
    /\ pc[p] = "v_check_user"
    /\ pc' = [pc EXCEPT ![p] =
                 IF UserWithEmail(pending[p].email)
                 THEN "v_conflict" ELSE "v_check_username"]
    /\ UNCHANGED <<db, recent_resends, limits, env, req, locals, sent, result,
                   history>>

\* verify_pending_user, line 75, second query: an account with the username
verify_check_username(p) ==
    /\ pc[p] = "v_check_username"
    /\ pc' = [pc EXCEPT ![p] =
                 IF UserWithUsername(pending[p].username)
                 THEN "v_conflict" ELSE "v_promote"]
    /\ UNCHANGED <<db, recent_resends, limits, env, req, locals, sent, result,
                   history>>

\* mutant of ConflictCommit: the pending registration is deleted with its
\* code instead of being marked
ConflictCommit_DeletesPending(q, v) ==
    [users |-> users,
     pendings |-> {r \in pendings : r.id # q.id},
     verifications |-> {w \in verifications : w.id # v.id}]

\* verify_pending_user, lines 76-78: the tables after the conflict commit.
\* The unit of work writes the columns that changed on the loaded object:
\* a pending registration loaded with status 'expired' is not written.
ConflictCommit(q, v) ==
    [users |-> users,
     pendings |-> IF q.status = "expired" THEN pendings
                  ELSE {IF r.id = q.id THEN [r EXCEPT !.status = "expired"]
                        ELSE r : r \in pendings},
     verifications |-> {w \in verifications : w.id # v.id}]

\* verify_pending_user, lines 76-79: the commit writes UPDATE pending_users
\* SET status WHERE id, when the status changes, and DELETE FROM
\* email_verifications WHERE id.  An UPDATE that matches no row raises
\* StaleDataError and nothing is committed; a DELETE that matches no row
\* is reported as a warning only.
verify_conflict_commit(p) ==
    /\ pc[p] = "v_conflict"
    /\ IF /\ pending[p].status # "expired"
          /\ ~\E r \in pendings : r.id = pending[p].id
       THEN /\ UNCHANGED <<pendings, verifications>>
            /\ Finish(p, "Error")
       ELSE LET t == ConflictCommit(pending[p], verification[p])
            IN  /\ pendings' = t.pendings
                /\ verifications' = t.verifications
                /\ Finish(p, "AlreadyExists")
    /\ UNCHANGED <<users, recent_resends, limits, env, req, locals, sent,
                   history>>

\* PendingUser.to_user
to_user(q) ==
    [username |-> q.username, email |-> q.email,
     assigned_id |-> q.assigned_id, is_verified |-> TRUE]

\* mutant of UsersUniqueViolation: email carries no unique index
UsersUniqueViolation_NoEmail(u) ==
    \E w \in users : \/ w.username = u.username
                     \/ w.assigned_id = u.assigned_id

\* the unique indexes of table users (models.py:21-23)
UsersUniqueViolation(u) ==
    \E w \in users : \/ w.username = u.username
                     \/ w.email = u.email
                     \/ w.assigned_id = u.assigned_id

\* mutant of PromoteCommit: db.session.delete(pending) is forgotten
PromoteCommit_KeepsPending(q, v) ==
    [users |-> users \cup {to_user(q)},
     pendings |-> pendings,
     verifications |-> {w \in verifications : w.id # v.id}]

\* verify_pending_user, lines 82-86: the tables after the promotion commit;
\* deleting the pending registration cascades to all its verifications
PromoteCommit(q, v) ==
    [users |-> users \cup {to_user(q)},
     pendings |-> {r \in pendings : r.id # q.id},
     verifications |->
        {w \in verifications : w.id # v.id /\ w.pending_user_id # q.id}]

\* mutant of verify_promote_commit: when the INSERT of the account fails,
\* the two DELETEs are committed all the same
verify_promote_commit_HalfCommitted(p) ==
    /\ pc[p] = "v_promote"
    /\ LET t == PromoteCommit(pending[p], verification[p])
       IN  /\ pendings' = t.pendings
           /\ verifications' = t.verifications
           /\ IF UsersUniqueViolation(to_user(pending[p]))
              THEN /\ UNCHANGED users
                   /\ Finish(p, "Error")
              ELSE /\ users' = t.users
                   /\ pc' = [pc EXCEPT ![p] = "v_welcome"]
                   /\ UNCHANGED result
    /\ UNCHANGED <<recent_resends, limits, env, req, locals, sent, history>>

\* verify_pending_user, lines 82-88.  Loading pending.verifications for the
\* cascade of line 85 flushes the INSERT of the account and the DELETE of
\* the verification first, so the statements from there to the commit run
\* under the write lock of the database; a unique index of users turns a
\* duplicate into an IntegrityError and nothing is committed
verify_promote_commit(p) ==
    /\ pc[p] = "v_promote"
    /\ IF UsersUniqueViolation(to_user(pending[p]))
       THEN /\ UNCHANGED db
            /\ Finish(p, "Error")
       ELSE LET t == PromoteCommit(pending[p], verification[p])
            IN  /\ users' = t.users
                /\ pendings' = t.pendings
                /\ verifications' = t.verifications
                /\ pc' = [pc EXCEPT ![p] = "v_welcome"]
                /\ UNCHANGED result
    /\ UNCHANGED <<recent_resends, limits, env, req, locals, sent, history>>

\* auth.py:114, the arguments of the mailer call: user.email and
\* user.username are read from the account row as it is stored now (the
\* promotion commit has expired the object)
verify_reload_user(p) ==
    /\ pc[p] = "v_welcome"
    /\ IF \E u \in users : u.email = pending[p].email
       THEN /\ pc' = [pc EXCEPT ![p] = "v_deliver"]
            /\ UNCHANGED result
       ELSE Finish(p, "Error")
    /\ UNCHANGED <<db, recent_resends, limits, env, req, locals, sent,
                   history>>

\* auth.py:112-118: EmailService.send_welcome_email returns; the request
\* succeeds whether the mail went out or not
verify_send_welcome(p) ==
    /\ pc[p] = "v_deliver"
    /\ \/ sent' = [sent EXCEPT ![p] = @ \cup {<<"welcome", pending[p].email>>}]
       \/ UNCHANGED sent
    /\ Finish(p, "Success")
    /\ UNCHANGED <<db, recent_resends, limits, env, req, locals, history>>

(* ----------------------- verify_code of run.py ------------------------ *)

\* run.py:745-749: the welcome mail is sent for the account object before
\* anything of the promotion is written to the database
run_send_welcome(p) ==
    /\ pc[p] = "v_promote"
    /\ \/ sent' = [sent EXCEPT ![p] = @ \cup {<<"welcome", pending[p].email>>}]
       \/ UNCHANGED sent
    /\ pc' = [pc EXCEPT ![p] = "v_commit"]
    /\ UNCHANGED <<db, recent_resends, limits, env, req, locals, result,
                   history>>

\* run.py:751-764: the promotion commit; an exception of the commit is
\* caught, the transaction is rolled back and the request ends with an
\* error message
run_promote_commit(p) ==
    /\ pc[p] = "v_commit"
    /\ IF UsersUniqueViolation(to_user(pending[p]))
       THEN /\ UNCHANGED db
            /\ Finish(p, "Error")
       ELSE LET t == PromoteCommit(pending[p], verification[p])
            IN  /\ users' = t.users
                /\ pendings' = t.pendings
                /\ verifications' = t.verifications
                /\ Finish(p, "Success")
    /\ UNCHANGED <<recent_resends, limits, env, req, locals, sent, history>>

(* ------------------------- update_user_profile ------------------------ *)

\* profile.py:103-108: POST /profile/update loads the account of the
\* session and reads the username field of the form
update_profile ==
    /\ profile = None
    /\ \E u \in users, username \in ProfileNames :
          profile' = [user |-> u, username |-> username]
    /\ UNCHANGED <<db, recent_resends, limits, now, pc, req, locals, sent,
                   result, history>>

\* UserService.update_user_profile, lines 111 and 131: the username of the
\* loaded account is rewritten and committed; the unique index on
\* users.username turns a duplicate into an IntegrityError, which is
\* rolled back
update_user_profile ==
    /\ profile # None
    /\ users' = IF \E w \in users \ {profile.user} :
                      w.username = profile.username
                 THEN users
                 ELSE (users \ {profile.user})
                          \cup {[profile.user EXCEPT
                                    !.username = profile.username]}
    /\ profile' = None
    /\ UNCHANGED <<pendings, verifications, recent_resends, limits, now,
                   pc, req, locals, sent, result, history>>

(* --------------------------- resend_code ------------------------------ *)

\* mutant of Throttled: the count test lets a fourth resend through
Throttled_CountAbove(entry, t) ==
    /\ entry # NoEntry
    /\ t - entry[1] < RESEND_WINDOW
    /\ entry[2] > MAX_RESENDS

\* auth.py:142-144: the throttle refuses the resend
Throttled(entry, t) ==
    /\ entry # NoEntry
    /\ t - entry[1] < RESEND_WINDOW
    /\ entry[2] >= MAX_RESENDS

\* mutant of ThrottleUpdate: the count starts again after a quiet hour
ThrottleUpdate_NewWindow(entry, t) ==
    IF entry # NoEntry /\ t - entry[1] < RESEND_WINDOW
    THEN <<t, entry[2] + 1>>
    ELSE <<t, 1>>

\* mutant of ThrottleUpdate: the time of the entry is not refreshed
ThrottleUpdate_KeepsTime(entry, t) ==
    IF entry # NoEntry THEN <<entry[1], entry[2] + 1>> ELSE <<t, 1>>

\* auth.py:152-155: the entry written after a resend, from the entry that
\* was read
ThrottleUpdate(entry, t) ==
    IF entry # NoEntry THEN <<t, entry[2] + 1>> ELSE <<t, 1>>

\* POST /resend-code arrives with the pending id of its session: the
\* limiter counts the request (auth.py:126, run.py:778) before the handler
\* runs; a request over the limit is answered by the error handler of the
\* application
resend_arrives(p, refused) ==
    /\ pc[p] = "idle"
    /\ \E addr \in Addrs, pid \in PendingIds :
        /\ limiter_limit(p, "resend", addr, RESEND_PERIOD, RESEND_LIMIT,
                         refused, "r_load")
        /\ req' = [req EXCEPT ![p] = [op |-> "resend", pending_id |-> pid]]
    /\ UNCHANGED <<db, recent_resends, env, locals, sent, history>>

\* auth.py:125-127: resend_code of the application package
resend_code(p) == resend_arrives(p, ratelimit_handler)

\* run.py:777-779: resend_code of run.py; the handler body, run.py:780-823,
\* makes the statements of auth.py:128-162 with those of
\* create_verification_code inlined
run_resend_code(p) == resend_arrives(p, run_ratelimit_handler)

\* auth.py:128-136: the PendingUser of the session is loaded
resend_load(p) ==
    /\ pc[p] = "r_load"
    /\ pending' = [pending EXCEPT ![p] = PendingGet(req[p].pending_id)]
    /\ IF PendingGet(req[p].pending_id) = None
       THEN Finish(p, "InvalidSession")
       ELSE /\ pc' = [pc EXCEPT ![p] = "r_throttle"]
            /\ UNCHANGED result
    /\ UNCHANGED <<db, recent_resends, limits, env, req, verification, code,
                   current_time, cascade, seen, sent, history>>

\* auth.py:139-146: the rate limiting check.  The test of the key and the
\* read of the entry (lines 142-143) are one step: no statement removes a
\* key, so the read that follows a successful test finds the entry that a
\* test made at the time of the read would find
resend_check_throttle(p) ==
    /\ pc[p] = "r_throttle"
    /\ current_time' = [current_time EXCEPT ![p] = now]
    /\ IF Throttled(recent_resends[pending[p].id], now)
       THEN Finish(p, "TooManyResends")
       ELSE /\ pc' = [pc EXCEPT ![p] = "r_code"]
            /\ UNCHANGED result
    /\ UNCHANGED <<db, recent_resends, limits, env, req, pending, verification,
                   code, cascade, seen, sent, history>>

\* auth.py:149: a new code replaces the codes of the pending registration
resend_issue_code(p) ==
    /\ pc[p] = "r_code"
    /\ \E n \in CodeNums :
        /\ verifications' =
              create_verification_code(pending[p].id, Format06(n), now)
        /\ code' = [code EXCEPT ![p] = Format06(n)]
    /\ grants' = [grants EXCEPT ![pending[p].id] =
                      Append(@, current_time[p])]
    /\ wrong' = [wrong EXCEPT ![pending[p].id] = 0]
    /\ unlocked' = [unlocked EXCEPT ![pending[p].id] =
                        @ \/ \E v \in VerificationsOf(pending[p].id) :
                                 v.attempts >= MAX_ATTEMPTS]
    /\ pc' = [pc EXCEPT ![p] = "r_update"]
    /\ UNCHANGED <<users, pendings, recent_resends, limits, env, req, pending,
                   verification, current_time, cascade, seen, sent, result>>

\* auth.py:152, 154: the test user_key in recent_resends; no statement
\* removes a key from the map
resend_test_throttle(p) ==
    /\ pc[p] = "r_update"
    /\ IF recent_resends[pending[p].id] = NoEntry
       THEN pc' = [pc EXCEPT ![p] = "r_update_write"]
       ELSE pc' = [pc EXCEPT ![p] = "r_update_read"]
    /\ UNCHANGED <<db, recent_resends, limits, env, req, locals, sent, result,
                   history>>

\* auth.py:153, right-hand side: recent_resends[user_key] is read for its
\* count
resend_read_throttle(p) ==
    /\ pc[p] = "r_update_read"
    /\ seen' = [seen EXCEPT ![p] = recent_resends[pending[p].id]]
    /\ pc' = [pc EXCEPT ![p] = "r_update_write"]
    /\ UNCHANGED <<db, recent_resends, limits, env, req, pending, verification,
                   code, current_time, cascade, sent, result, history>>

\* auth.py:153, 155: the throttle entry is stored, with the count that was
\* read plus one, or with 1 when the key was not in the map; no lock is
\* held from the test to the store, and the requests of the server run in
\* threads of one process (app.run, run.py:2097)
resend_update_throttle(p) ==
    /\ pc[p] = "r_update_write"
    /\ recent_resends' =
          [recent_resends EXCEPT ![pending[p].id] =
              ThrottleUpdate(seen[p], current_time[p])]
    /\ seen' = [seen EXCEPT ![p] = NoEntry]
    /\ pc' = [pc EXCEPT ![p] = "r_mail"]
    /\ UNCHANGED <<db, limits, env, req, pending, verification, code,
                   current_time, cascade, sent, result, history>>

\* auth.py:157, the arguments of the mailer call: pending.email and
\* pending.username are read from the row as it is stored now (the commit
\* of create_verification_code has expired the object); a row that is gone
\* raises ObjectDeletedError and the request is answered as a server error
resend_reload_for_mail(p) ==
    /\ pc[p] = "r_mail"
    /\ LET cur == PendingGet(pending[p].id)
       IN  IF cur = None
           THEN /\ Finish(p, "Error")
                /\ UNCHANGED pending
           ELSE /\ pending' = [pending EXCEPT ![p] = cur]
                /\ pc' = [pc EXCEPT ![p] = "r_deliver"]
                /\ UNCHANGED result
    /\ UNCHANGED <<db, recent_resends, limits, env, req, verification, code,
                   current_time, cascade, seen, sent, history>>

\* mutant of resend_send_mail: a failed mail deletes the pending
\* registration and its code, as the signup cleanup does
resend_send_mail_CleansUp(p) ==
    /\ pc[p] = "r_deliver"
    /\ \/ /\ sent' = [sent EXCEPT ![p] =
                        @ \cup {<<"code", pending[p].email, code[p]>>}]
          /\ Finish(p, "Resent")
          /\ UNCHANGED db
       \/ /\ UNCHANGED <<sent, users>>
          /\ pendings' = {q \in pendings : q.id # pending[p].id}
          /\ verifications' = verifications \ VerificationsOf(pending[p].id)
          /\ Finish(p, "DeliveryFailure")
    /\ UNCHANGED <<recent_resends, limits, env, req, locals, history>>

\* auth.py:157-162: EmailService.send_verification_email returns True or
\* False; the pending registration and the new code stay either way
resend_send_mail(p) ==
    /\ pc[p] = "r_deliver"
    /\ \/ /\ sent' = [sent EXCEPT ![p] =
                        @ \cup {<<"code", pending[p].email, code[p]>>}]
          /\ Finish(p, "Resent")
       \/ /\ UNCHANGED sent
          /\ Finish(p, "DeliveryFailure")
    /\ UNCHANGED <<db, recent_resends, limits, env, req, locals, history>>

(* --------------------------- specifications --------------------------- *)

\* the steps of a signup request up to the commit of its pending
\* registration
SignupQueries(p) ==
    \/ signup_user_email(p)
    \/ signup_pending_email(p)
    \/ signup_user_username(p)
    \/ signup_pending_username(p)
    \/ generate_assigned_id(p)
    \/ generate_assigned_id_pending(p)
    \/ create_pending_user(p)
    \/ signup_reload(p)

\* the steps of a signup request after its arrival
SignupStep(p) ==
    \/ SignupQueries(p)
    \/ signup_issue_code(p)
    \/ signup_reload_for_mail(p)
    \/ signup_send_mail(p)
    \/ signup_cleanup(p)
    \/ signup_cleanup_commit(p)

\* the steps of a signup request of run.py after its arrival
RunSignupStep(p) ==
    \/ SignupQueries(p)
    \/ run_signup_issue_code(p)
    \/ signup_reload_for_mail(p)
    \/ signup_send_mail(p)
    \/ run_signup_refresh_verification(p)
    \/ run_signup_cleanup(p)

\* the steps of a verify request after its first
VerifyStep(p) ==
    \/ verify_load_code(p)
    \/ verify_wrong_commit(p)
    \/ verify_check_user(p)
    \/ verify_check_username(p)
    \/ verify_conflict_commit(p)
    \/ verify_promote_commit(p)
    \/ verify_reload_user(p)
    \/ verify_send_welcome(p)

\* the steps of a verify request of run.py after its first
RunVerifyStep(p) ==
    \/ verify_load_code(p)
    \/ verify_wrong_commit(p)
    \/ verify_check_user(p)
    \/ verify_check_username(p)
    \/ verify_conflict_commit(p)
    \/ run_send_welcome(p)
    \/ run_promote_commit(p)

\* the steps of a resend request after its arrival
ResendStep(p) ==
    \/ resend_load(p)
    \/ resend_check_throttle(p)
    \/ resend_issue_code(p)
    \/ resend_test_throttle(p)
    \/ resend_read_throttle(p)
    \/ resend_update_throttle(p)
    \/ resend_reload_for_mail(p)
    \/ resend_send_mail(p)

Serve(op) == served' = [served EXCEPT ![op] = @ + 1]

\* no request is being served
Quiet == \A q \in Procs : pc[q] \in {"idle", "done"}

\* no signup request is being served
NoSignupInFlight == \A q \in Procs : req[q].op # "signup"

\* no address has sent more than n requests to the endpoint in the window
\* that is open after the step
AtMost(endpoint, n) ==
    \A a \in Addrs : \/ limits'[endpoint][a] = NoWindow
                     \/ limits'[endpoint][a][2] <= n

\* the form of the request carries a password that passes the validation
ValidForm(p) ==
    /\ req'[p].password = req'[p].confirm_password
    /\ Len(req'[p].password) >= MIN_PASSWORD_LEN

\* the client submits the code stored for the pending id of its session,
\* which it has read in its mail
KnowsCode(p) ==
    LET stored == {v.code : v \in VerificationsOf(req'[p].pending_id)}
    IN  IF stored = {} THEN req'[p].code = Format06(7)
        ELSE req'[p].code \in stored

\* the client types six characters into the code field
SixDigits(p) == Len(req'[p].code) = CODE_WIDTH

\* the form of the request asks for the username alice
AsAlice(p) == req'[p].username = "alice"

\* a profile update is served
Rename ==
    \/ update_profile /\ served["rename"] < MaxRenames /\ Serve("rename")
    \/ update_user_profile /\ UNCHANGED served

\* Spec: the signup and verify requests of two clients overlap step by
\* step, and with the profile updates of the accounts.  Both clients ask
\* for the username alice, with either email and a valid password, and
\* submit the code of their mail; a run serves at most MaxSignups signups,
\* MaxVerifies verifies and MaxRenames profile updates.
Next ==
    \/ Rename
    \/ \E p \in Procs :
        \/ /\ signup(p) /\ ValidForm(p) /\ AsAlice(p)
           /\ served["signup"] < MaxSignups /\ Serve("signup")
        \/ /\ verify_code(p) /\ KnowsCode(p)
           /\ served["verify"] < MaxVerifies /\ Serve("verify")
        \/ (SignupStep(p) \/ VerifyStep(p) \/ Return(p)) /\ UNCHANGED served

Spec == Init /\ [][Next]_vars

\* SpecSeq: one client (alice, a@x.com) sends one request at a time, at
\* most MaxSeqSignups signups a minute and MaxRefused resends more than
\* the limiter admits in an hour, while the clock runs to LateTime.
OneClient(p) == req'[p].username = "alice" /\ req'[p].email = "a@x.com"

NextSeq ==
    \/ Tick /\ now' <= LateTime /\ UNCHANGED served
    \/ /\ signup("r1") /\ OneClient("r1")
       /\ AtMost("signup", MaxSeqSignups)
       /\ UNCHANGED served
    \/ verify_code("r1") /\ UNCHANGED served
    \/ /\ resend_code("r1") /\ AtMost("resend", RESEND_LIMIT + MaxRefused)
       /\ UNCHANGED served
    \/ (SignupStep("r1") \/ VerifyStep("r1") \/ ResendStep("r1")
            \/ Return("r1")) /\ UNCHANGED served

SpecSeq == Init /\ [][NextSeq]_vars

\* SpecHour: the client of SpecSeq signs up, at most MaxSignups times, and
\* asks for resends, one request at a time; between requests the clock
\* runs to MaxTime.
NextHour ==
    \/ Tick /\ Quiet /\ UNCHANGED served
    \/ /\ signup("r1") /\ OneClient("r1") /\ ValidForm("r1")
       /\ served["signup"] < MaxSignups /\ Serve("signup")
    \/ /\ resend_code("r1") /\ AtMost("resend", RESEND_LIMIT + MaxRefused)
       /\ UNCHANGED served
    \/ (SignupStep("r1") \/ ResendStep("r1") \/ Return("r1"))
          /\ UNCHANGED served

SpecHour == Init /\ [][NextHour]_vars

\* SpecLate: client r1 registers (alice, a@x.com) and client r2 registers
\* (bob, a@x.com); their signups overlap step by step, a verify request
\* arrives with six characters in its code field while no other request is
\* being served, and between requests the clock runs to LateTime.
SameEmail(p) ==
    /\ req'[p].email = "a@x.com"
    /\ req'[p].username = (IF p = "r1" THEN "alice" ELSE "bob")

\* no verify request is being served
NoVerifyInFlight ==
    \A q \in Procs :
        pc[q] \notin {"v_load_code", "v_wrong", "v_check_user",
                      "v_check_username", "v_conflict", "v_promote",
                      "v_welcome", "v_deliver"}

NextLate ==
    \/ Tick /\ Quiet /\ now' <= LateTime /\ UNCHANGED served
    \/ \E p \in Procs :
        \/ /\ signup(p) /\ SameEmail(p) /\ ValidForm(p)
           /\ served["signup"] < MaxSignups /\ Serve("signup")
        \/ /\ verify_code(p) /\ SixDigits(p)
           /\ Quiet
           /\ served["verify"] < MaxLateVerifies /\ Serve("verify")
        \/ (SignupStep(p) \/ VerifyStep(p) \/ Return(p)) /\ UNCHANGED served

SpecLate == Init /\ [][NextLate]_vars

\* SpecMix: the two clients of SpecLate; their signup, verify and resend
\* requests overlap step by step, verify requests submit the code of the
\* mail, a run serves at most MaxSignups signups, MaxVerifies verifies and
\* MaxMixResends resends, and the clock stands.
NextMix ==
    \E p \in Procs :
        \/ /\ signup(p) /\ SameEmail(p) /\ ValidForm(p)
           /\ served["signup"] < MaxSignups /\ Serve("signup")
        \/ /\ verify_code(p) /\ KnowsCode(p)
           /\ served["verify"] < MaxVerifies /\ Serve("verify")
        \/ /\ resend_code(p)
           /\ served["resend"] < MaxMixResends /\ Serve("resend")
        \/ (SignupStep(p) \/ VerifyStep(p) \/ ResendStep(p) \/ Return(p))
              /\ UNCHANGED served

SpecMix == Init /\ [][NextMix]_vars

\* SpecDup: one client (alice, a@x.com) signs up once and, when the signup
\* has been answered, sends verify requests (six characters in the code
\* field) and resend requests from two browser tabs, which overlap step by
\* step; a run serves at most MaxDupVerifies verifies and MaxDupResends
\* resends, and the clock stands.
NextDup ==
    \E p \in Procs :
        \/ /\ signup(p) /\ OneClient(p) /\ ValidForm(p)
           /\ served["signup"] < 1 /\ Serve("signup")
        \/ /\ verify_code(p) /\ SixDigits(p) /\ NoSignupInFlight
           /\ served["verify"] < MaxDupVerifies /\ Serve("verify")
        \/ /\ resend_code(p) /\ NoSignupInFlight
           /\ served["resend"] < MaxDupResends /\ Serve("resend")
        \/ (SignupStep(p) \/ VerifyStep(p) \/ ResendStep(p) \/ Return(p))
              /\ UNCHANGED served

SpecDup == Init /\ [][NextDup]_vars

\* SpecReuse: one browser sends one request at a time, signing up as
\* (alice, a@x.com) first and as (bob, b@x.com) afterwards; between
\* requests the clock ticks up to ReuseTick and then jumps to ReuseTime.
\* A run serves at most MaxSignups signups, MaxReuseVerifies verifies,
\* which submit the code of the mail, and MaxReuseResends resends; a
\* pending registration that is promoted or deleted frees its numeric id
\* for the next signup.
FirstAliceThenBob(p) ==
    IF served["signup"] = 0
    THEN req'[p].username = "alice" /\ req'[p].email = "a@x.com"
    ELSE req'[p].username = "bob" /\ req'[p].email = "b@x.com"

NextReuse ==
    \/ TickTo(ReuseTick) /\ Quiet /\ UNCHANGED served
    \/ /\ Wait(ReuseTime - ReuseTick) /\ Quiet /\ now = ReuseTick
       /\ UNCHANGED served
    \/ /\ signup("r1") /\ FirstAliceThenBob("r1") /\ ValidForm("r1")
       /\ served["signup"] < MaxSignups /\ Serve("signup")
    \/ /\ verify_code("r1") /\ KnowsCode("r1")
       /\ served["verify"] < MaxReuseVerifies /\ Serve("verify")
    \/ /\ resend_code("r1")
       /\ served["resend"] < MaxReuseResends /\ Serve("resend")
    \/ (SignupStep("r1") \/ VerifyStep("r1") \/ ResendStep("r1")
            \/ Return("r1")) /\ UNCHANGED served

SpecReuse == Init /\ [][NextReuse]_vars

\* SpecFault: the signup requests of two clients, and their requests for
\* the signup form, overlap step by step, and the database can fail while
\* the first code of a signup is stored.  A run serves at most MaxSignups
\* signups, and an address sends at most MaxRefused requests more than the
\* limiter admits in a minute.
NextFault ==
    \/ /\ signup_form /\ AtMost("signup", SIGNUP_LIMIT + MaxRefused)
       /\ UNCHANGED served
    \/ \E p \in Procs :
        \/ /\ signup(p) /\ AtMost("signup", SIGNUP_LIMIT + MaxRefused)
           /\ served["signup"] < MaxSignups /\ Serve("signup")
        \/ (SignupStep(p) \/ signup_issue_code_fails(p) \/ Return(p))
              /\ UNCHANGED served

SpecFault == Init /\ [][NextFault]_vars

\* SpecOld: the client of SpecSeq sends one request at a time; between
\* requests the clock ticks up to MaxOldTick, waits for PENDING_TTL once,
\* and ticks on up to MaxOldTime.
NextOld ==
    \/ TickTo(MaxOldTick) /\ Quiet /\ UNCHANGED served
    \/ TickTo(MaxOldTime) /\ now >= PENDING_TTL /\ Quiet /\ UNCHANGED served
    \/ Sleep /\ Quiet /\ now' <= MaxOldTime /\ UNCHANGED served
    \/ /\ signup("r1") /\ OneClient("r1") /\ ValidForm("r1")
       /\ AtMost("signup", MaxSeqSignups)
       /\ UNCHANGED served
    \/ verify_code("r1") /\ UNCHANGED served
    \/ /\ resend_code("r1") /\ AtMost("resend", RESEND_LIMIT + MaxRefused)
       /\ UNCHANGED served
    \/ (SignupStep("r1") \/ VerifyStep("r1") \/ ResendStep("r1")
            \/ Return("r1")) /\ UNCHANGED served

SpecOld == Init /\ [][NextOld]_vars

\* SpecRun: the application started from run.py, whose signup keeps the
\* EmailVerification object for its cleanup and whose verify_code sends
\* the welcome mail before the promotion commit.  A run is one of two
\* scenarios.  Either one client (alice, a@x.com) signs up once and sends
\* verify requests, which submit the code stored when they arrive, and
\* resend requests from two browser tabs: at most MaxVerifies verifies,
\* and MaxRefused resend requests more than the limiter admits in an hour.
\* Or a second client (bob, b@x.com) signs up as well, before any verify
\* or resend request was sent, and the run then has one resend request
\* and no verify request.  The requests overlap step by step, with each
\* other and with the profile updates of the accounts (at most
\* MaxRenames).  The default limits of run.py:52-55 (50 requests an hour)
\* are out of reach of the requests of a run.
NoResendYet == \A a \in Addrs : limits["resend"][a] = NoWindow

NextRun ==
    \/ Rename
    \/ \E p \in Procs :
        \/ /\ run_signup(p) /\ FirstAliceThenBob(p) /\ ValidForm(p)
           /\ served["signup"] < MaxSignups
           /\ (served["signup"] = 1) => (served["verify"] = 0 /\ NoResendYet)
           /\ Serve("signup")
        \/ /\ verify_code(p) /\ KnowsCode(p)
           /\ served["verify"] < MaxVerifies /\ served["signup"] <= 1
           /\ Serve("verify")
        \/ /\ run_resend_code(p)
           /\ AtMost("resend", RESEND_LIMIT + MaxRefused)
           /\ (served["signup"] = 2) => AtMost("resend", 1)
           /\ UNCHANGED served
        \/ (RunSignupStep(p) \/ RunVerifyStep(p) \/ ResendStep(p)
                \/ Return(p))
              /\ UNCHANGED served

SpecRun == Init /\ [][NextRun]_vars

(* ------------------------------ claims -------------------------------- *)

\* p takes a step of its request
Moves(p) == pc'[p] # pc[p]

\* p commits the promotion of the pending registration it has loaded
Promotes(p) == pc[p] = "v_promote" /\ pc'[p] = "v_welcome"

\* C1: a successful CheckCode is atomic.  The one commit of the promotion
\* leaves no pending_users row and no email_verifications row of the pending
\* id and exactly one account with the pending registration's username and
\* email, which is verified; no step adds an account while the pending row
\* stays, and no step of a verify request removes a pending row without
\* adding its account.
C1_AtomicPromotion ==
    [][\A p \in Procs :
          LET q == pending[p]
          IN  /\ Promotes(p) =>
                    /\ \A r \in pendings' : r.id # q.id
                    /\ \A v \in verifications' : v.pending_user_id # q.id
                    /\ {u \in users' : u.username = q.username
                                        /\ u.email = q.email}
                          = {[username |-> q.username, email |-> q.email,
                              assigned_id |-> q.assigned_id,
                              is_verified |-> TRUE]}
              /\ (Moves(p) /\ users' # users) => Promotes(p)
              /\ (Moves(p) /\ req[p].op = "verify"
                    /\ {r.id : r \in pendings'} # {r.id : r \in pendings})
                   => Promotes(p)
      ]_vars

\* C1 witness: a promotion has been committed and the request is about to
\* send the welcome mail
C1_Witness ==
    \E p \in Procs :
        /\ pc[p] = "v_welcome"
        /\ to_user(pending[p]) \in users
        /\ \A r \in pendings : r.id # pending[p].id

\* C2: verify_pending_user accepts the submitted code exactly when it equals,
\* character by character, the newest code of the pending registration, that
\* code has fewer than 5 attempts, and the clock is not past its expires_at.
C2_AcceptedIff ==
    [][\A p \in Procs :
          (pc[p] = "v_load_code" /\ Moves(p)) =>
              (pc'[p] = "v_check_user"
                 <=> \E v \in LatestVerifications(pending[p].id) :
                        /\ v.code = req[p].code
                        /\ v.attempts < 5
                        /\ now <= v.expires_at)
      ]_vars

\* C2 witness: a code is accepted at the very minute it expires, after four
\* wrong submissions
C2_Witness ==
    \E p \in Procs :
        /\ pc[p] = "v_check_user"
        /\ verification[p].attempts = 4
        /\ now = verification[p].expires_at

\* the newest code of the pending registration p has loaded is past expiry
LoadedCodeExpired(p) ==
    \E v \in VerificationsOf(pending[p].id) : now > v.expires_at

\* C3 as claimed: after 5 wrong submissions against a code, the next
\* submission ends with TooManyAttempts and creates no account.
C3_SixthAlwaysTooMany ==
    [][\A p \in Procs :
          (pc[p] = "v_load_code" /\ Moves(p) /\ wrong[pending[p].id] >= 5) =>
              /\ pc'[p] = "done"
              /\ result'[p] = "TooManyAttempts"
              /\ users' = users
      ]_vars

\* C3 as amended: after 5 wrong submissions against a code, the next
\* submission creates no account; it ends with TooManyAttempts while the
\* code has not expired and with Expired once it has.
C3_SixthRefused ==
    [][\A p \in Procs :
          (pc[p] = "v_load_code" /\ Moves(p) /\ wrong[pending[p].id] >= 5) =>
              /\ pc'[p] = "done"
              /\ result'[p] = IF LoadedCodeExpired(p) THEN "Expired"
                              ELSE "TooManyAttempts"
              /\ users' = users
      ]_vars

\* C3 witness: the sixth submission carried the stored code and was refused
\* for too many attempts
C3_Witness ==
    \E p \in Procs :
        /\ pc[p] = "done"
        /\ result[p] = "TooManyAttempts"
        /\ wrong[req[p].pending_id] = 5
        /\ \E v \in VerificationsOf(req[p].pending_id) : v.code = req[p].code

\* a code is issued in this step
Issues(p) == pc[p] \in {"s_code", "r_code"} /\ Moves(p)

\* C4: the attempts of a verification row change only in the commit that
\* follows a failed comparison, and then by exactly 1; every submission that
\* ends with InvalidCode has raised them by 1, and no other step touches
\* the attempts of a row that stays.
C4_AttemptsFrame ==
    [][/\ \A v \in verifications, w \in verifications' :
            (w.id = v.id /\ w.attempts # v.attempts
                /\ ~\E p \in Procs : Issues(p)) =>
               \E p \in Procs :
                  /\ pc[p] = "v_wrong" /\ Moves(p)
                  /\ result'[p] = "InvalidCode"
                  /\ v.pending_user_id = req[p].pending_id
                  /\ v.code # req[p].code
                  /\ w.attempts = v.attempts + 1
       /\ \A p \in Procs :
            (pc[p] = "v_wrong" /\ Moves(p)) =>
               /\ result'[p] = "InvalidCode"
               /\ \E v \in VerificationsOf(req[p].pending_id) :
                     verifications' =
                        (verifications \ {v})
                           \cup {[v EXCEPT !.attempts = v.attempts + 1]}
      ]_vars

\* C4 witness: a second wrong submission has been counted
C4_Witness ==
    \E p \in Procs :
        /\ pc[p] = "done"
        /\ result[p] = "InvalidCode"
        /\ \E v \in VerificationsOf(req[p].pending_id) : v.attempts = 2

\* C5: with requests that do not overlap, a pending registration never has
\* more than one verification row, and the step that issues a code leaves
\* exactly one, the new one, for its pending registration.
C5_OneLiveCode ==
    [][/\ \A i \in PendingIds :
            Cardinality({v \in verifications' : v.pending_user_id = i}) <= 1
       /\ \A p \in Procs :
            Issues(p) =>
               {v \in verifications' : v.pending_user_id = pending[p].id}
                  = {w \in verifications' :
                        /\ w.pending_user_id = pending[p].id
                        /\ w.code = code'[p]
                        /\ w.attempts = 0
                        /\ w.expires_at = now + 10}
       /\ \A p \in Procs :
            Issues(p) =>
               Cardinality({v \in verifications' :
                               v.pending_user_id = pending[p].id}) = 1
      ]_vars

\* C5 witness: a second resend has replaced the code of the first, and one
\* fresh row is left
C5_Witness ==
    \E p \in Procs :
        /\ pc[p] = "r_update"
        /\ Len(grants[pending[p].id]) >= 2
        /\ \E v \in verifications :
              /\ VerificationsOf(pending[p].id) = {v}
              /\ v.attempts = 0
              /\ v.code = code[p]

\* the time of the newest admitted resend of pending id i
LastGrant(i) == grants[i][Len(grants[i])]

\* C6: a resend asked for after 3 admitted resends, less than an hour after
\* the newest of them, ends with TooManyResends at the throttle check; the
\* tables, the throttle map and the mails of the request are as before.
C6_ThrottledResendMutatesNothing ==
    [][\A p \in Procs :
          (/\ pc[p] = "r_throttle" /\ Moves(p)
           /\ Len(grants[pending[p].id]) >= 3
           /\ now - LastGrant(pending[p].id) < 60) =>
              /\ pc'[p] = "done"
              /\ result'[p] = "TooManyResends"
              /\ verifications' = verifications
              /\ recent_resends' = recent_resends
              /\ pendings' = pendings
              /\ users' = users
              /\ sent[p] = {} /\ sent'[p] = {}
      ]_vars

\* C6 witness: the fourth resend came 50 minutes after the third and was
\* refused
C6_Witness ==
    \E p \in Procs :
        /\ pc[p] = "done"
        /\ result[p] = "TooManyResends"
        /\ Len(grants[req[p].pending_id]) = 3
        /\ now - LastGrant(req[p].pending_id) = 50

\* C7: of the resends admitted for one pending registration, any four in a
\* row span an hour or more, so no window shorter than an hour holds more
\* than 3 of them.
C7_ThreePerHour ==
    \A i \in PendingIds :
        \A k \in 1..(Len(grants[i]) - 3) :
            grants[i][k + 3] - grants[i][k] >= 60

\* C7 witness: a fourth resend has been admitted
C7_Witness == \E i \in PendingIds : Len(grants[i]) >= 4

\* C8: a CheckCode that finds no code for the pending registration, or finds
\* its code past expires_at, ends with Expired at once; no account is
\* created, and the codes with their attempts and the pending registrations
\* are as before.
C8_ExpiredOrMissing ==
    [][\A p \in Procs :
          (/\ pc[p] = "v_load_code" /\ Moves(p)
           /\ \/ VerificationsOf(pending[p].id) = {}
              \/ LoadedCodeExpired(p)) =>
              /\ pc'[p] = "done"
              /\ result'[p] = "Expired"
              /\ users' = users
              /\ verifications' = verifications
              /\ pendings' = pendings
      ]_vars

\* C8 witness: a CheckCode for a pending registration that is still there
\* but has no code left ended with Expired
C8_Witness ==
    \E p \in Procs :
        /\ pc[p] = "done"
        /\ result[p] = "Expired"
        /\ verification[p] = None
        /\ \E r \in pendings : r.id = req[p].pending_id
        /\ VerificationsOf(req[p].pending_id) = {}

\* the code p has loaded is the one it submitted, and it is neither locked
\* nor expired
SubmittedValidCode(p) ==
    /\ req[p].op = "verify"
    /\ pending[p] # None
    /\ verification[p] # None
    /\ verification[p].code = req[p].code
    /\ verification[p].attempts < 5
    /\ now <= verification[p].expires_at

\* C9 as claimed: when two pending registrations of one email have both
\* been answered on a correct, valid code, one answer is Success and the
\* other is AlreadyExists, however the two requests interleave.
C9_OneSuccessOneAlreadyExists ==
    \A p, q \in Procs :
        (/\ p # q
         /\ pc[p] = "done" /\ pc[q] = "done"
         /\ SubmittedValidCode(p) /\ SubmittedValidCode(q)
         /\ pending[p].id # pending[q].id
         /\ pending[p].email = pending[q].email) =>
            {result[p], result[q]} = {"Success", "AlreadyExists"}

\* C10: a CheckCode with a correct, live, unlocked code that finds an
\* account with the email or with the username of its pending registration
\* takes the conflict branch; the commit of that branch, made while the
\* pending registration is stored, ends the request with AlreadyExists,
\* leaves no code of the pending registration, keeps every pending row and
\* marks this one expired, and adds no account.  When another request has
\* deleted the pending registration in between, the commit of a
\* registration that was loaded with status pending fails and changes
\* nothing.
C10_ConflictMarksExpired ==
    [][\A p \in Procs :
          LET q == pending[p]
          IN  /\ (/\ pc[p] = "v_check_user" /\ Moves(p)
                  /\ \E u \in users : u.email = q.email) =>
                     /\ pc'[p] = "v_conflict"
                     /\ UNCHANGED db
              /\ (/\ pc[p] = "v_check_username" /\ Moves(p)
                  /\ \E u \in users : u.username = q.username) =>
                     /\ pc'[p] = "v_conflict"
                     /\ UNCHANGED db
              /\ (/\ pc[p] = "v_conflict" /\ Moves(p)
                  /\ \E r \in pendings : r.id = q.id) =>
                     /\ pc'[p] = "done"
                     /\ result'[p] = "AlreadyExists"
                     /\ users' = users
                     /\ \A w \in verifications' : w.pending_user_id # q.id
                     /\ {r.id : r \in pendings'} = {r.id : r \in pendings}
                     /\ \E r \in pendings' :
                           r.id = q.id /\ r.status = "expired"
                     /\ \A r \in pendings' :
                           r.id # q.id => r \in pendings
              /\ (/\ pc[p] = "v_conflict" /\ Moves(p)
                  /\ \A r \in pendings : r.id # q.id
                  /\ q.status = "pending") =>
                     /\ pc'[p] = "done"
                     /\ result'[p] = "Error"
                     /\ UNCHANGED db
      ]_vars

\* C10 witness: a request ended with AlreadyExists; the pending registration
\* is kept with status expired, has no code, and has no account of its own
C10_Witness ==
    \E p \in Procs :
        /\ pc[p] = "done"
        /\ result[p] = "AlreadyExists"
        /\ [pending[p] EXCEPT !.status = "expired"] \in pendings
        /\ VerificationsOf(pending[p].id) = {}
        /\ to_user(pending[p]) \notin users

\* a password that passes the validation of signup
GoodPassword == <<"p", "a", "s", "s", "w", "o", "r", "d">>

\* C11: when a signup has ended with a delivery failure, the pending
\* registration it created and every code of it are gone, and a signup
\* with the same username and email now passes the existence checks and
\* finds a free assigned id, so it creates a new pending registration.
C11_FailedSignupLeavesNothing ==
    \A p \in Procs :
        (/\ pc[p] = "done" /\ req[p].op = "signup"
         /\ result[p] = "DeliveryFailure") =>
            /\ PendingGet(pending[p].id) = None
            /\ VerificationsOf(pending[p].id) = {}
            /\ validate(GoodPassword, GoodPassword) = "ok"
            /\ ~UserWithEmail(req[p].email)
            /\ ~PendingWithEmail(req[p].email)
            /\ ~UserWithUsername(req[p].username)
            /\ ~PendingWithUsername(req[p].username)
            /\ \E c \in Candidates(req[p].username) :
                  ~UserWithAssignedId(c) /\ ~PendingWithAssignedId(c)

\* C11 witness: a signup ended with a delivery failure after its pending
\* registration and its code had been stored
C11_Witness ==
    \E p \in Procs :
        /\ pc[p] = "done"
        /\ req[p].op = "signup"
        /\ result[p] = "DeliveryFailure"
        /\ pending[p].id = 1
        /\ code[p] # NoCode
        /\ pendings = {}

\* C12 as claimed: in the step that inserts a pending registration, no
\* account and no other pending registration carries its username or its
\* email, also when signup requests overlap.
C12_NoCollisionAtCreation ==
    [][\A p \in Procs :
          (pc[p] = "s_insert" /\ pc'[p] = "s_reload") =>
              /\ \A u \in users : /\ u.username # pending'[p].username
                                  /\ u.email # pending'[p].email
              /\ \A q \in pendings : /\ q.username # pending'[p].username
                                     /\ q.email # pending'[p].email
      ]_vars

\* C13 as claimed: create_verification_code called with the id of a pending
\* registration that is not stored fails; the caller's request ends there
\* and table email_verifications is as before.
C13_IssueForMissingPendingFails ==
    [][\A p \in Procs :
          (Issues(p) /\ PendingGet(pending[p].id) = None) =>
              /\ pc'[p] = "done"
              /\ verifications' = verifications
      ]_vars

\* the pending registration p has loaded is stored with status expired
StoredExpired(p) ==
    \E r \in pendings : r.id = pending[p].id /\ r.status = "expired"

\* C14 as claimed: no step of a resend request for a pending registration
\* that is stored with status expired changes table email_verifications.
C14_NoCodeForExpiredPending ==
    [][\A p \in Procs :
          (req[p].op = "resend" /\ Moves(p) /\ StoredExpired(p)) =>
              verifications' = verifications
      ]_vars

\* C15 as claimed: a pending registration stored with status expired and
\* without a code stays so in every step: it keeps its row and its status,
\* gets no code again, and no account is made from it.
C15_ExpiredIsTerminal ==
    [][\A r \in pendings :
          (r.status = "expired" /\ VerificationsOf(r.id) = {}) =>
              /\ r \in pendings'
              /\ \A w \in verifications' : w.pending_user_id # r.id
              /\ to_user(r) \notin users'
      ]_vars

\* C16: while the code of a pending registration is locked, every CheckCode
\* for it is refused and changes nothing, and the locked row goes away only
\* in the step of a resend that issues a code; that step leaves one code
\* with attempts 0 that expires 10 minutes later; after it, a CheckCode
\* with the live, matching code is accepted and, no account being in the
\* way, commits the promotion.
C16_LockedUntilResend ==
    [][/\ \A p \in Procs :
            (/\ pc[p] = "v_load_code" /\ Moves(p)
             /\ \E v \in VerificationsOf(pending[p].id) : v.attempts >= 5) =>
                /\ pc'[p] = "done"
                /\ result'[p] \in {"TooManyAttempts", "Expired"}
                /\ UNCHANGED db
       /\ \A v \in verifications :
            (v.attempts >= 5 /\ v \notin verifications') =>
                \E p \in Procs : /\ pc[p] = "r_code" /\ Moves(p)
                                  /\ pending[p].id = v.pending_user_id
       /\ \A p \in Procs :
            (pc[p] = "r_code" /\ Moves(p)) =>
                /\ \E w \in verifications' :
                      w.pending_user_id = pending[p].id
                /\ \A w \in verifications' :
                      w.pending_user_id = pending[p].id =>
                         /\ w.attempts = 0
                         /\ w.expires_at = now + 10
                         /\ w.code = code'[p]
       /\ \A p \in Procs :
            (pc[p] \in {"v_load_code", "v_check_user", "v_check_username",
                        "v_promote"}
                /\ Moves(p) /\ unlocked[pending[p].id]) =>
                /\ (/\ pc[p] = "v_load_code"
                    /\ \E v \in VerificationsOf(pending[p].id) :
                          /\ v.code = req[p].code
                          /\ v.attempts < 5
                          /\ now <= v.expires_at) =>
                       pc'[p] = "v_check_user"
                /\ (/\ pc[p] = "v_check_user"
                    /\ \A u \in users : u.email # pending[p].email) =>
                       pc'[p] = "v_check_username"
                /\ (/\ pc[p] = "v_check_username"
                    /\ \A u \in users :
                          u.username # pending[p].username) =>
                       pc'[p] = "v_promote"
                /\ pc[p] = "v_promote" =>
                       /\ pc'[p] = "v_welcome"
                       /\ to_user(pending[p]) \in users'
      ]_vars

\* C16 witness: a CheckCode has succeeded for a pending registration whose
\* locked code a resend had replaced
C16_Witness ==
    \E p \in Procs :
        /\ pc[p] = "done"
        /\ req[p].op = "verify"
        /\ result[p] = "Success"
        /\ unlocked[req[p].pending_id]

\* C17 as claimed: after 3 admitted resends at times t1 < t2 < t3, a resend
\* checked later than t1 + 1 hour passes the throttle, also when it is
\* less than 1 hour after t3.
C17_WindowSlides ==
    [][\A p \in Procs :
          (/\ pc[p] = "r_throttle" /\ Moves(p)
           /\ Len(grants[pending[p].id]) = 3
           /\ grants[pending[p].id][1] < grants[pending[p].id][2]
           /\ grants[pending[p].id][2] < grants[pending[p].id][3]
           /\ now > grants[pending[p].id][1] + 60) =>
              pc'[p] = "r_code"
      ]_vars

\* C18: when the commit of a promotion fails, the request ends with an
\* error and the three tables are exactly as before the commit: no account
\* is added, and the pending registration and the code the request had
\* loaded are still stored if they were; the request's loaded objects are
\* dropped before the process serves its next request.
C18_FailedPromotionRollsBack ==
    [][\A p \in Procs :
          /\ (pc[p] = "v_promote" /\ Moves(p) /\ pc'[p] # "v_welcome") =>
                 /\ pc'[p] = "done"
                 /\ result'[p] = "Error"
                 /\ UNCHANGED db
          /\ (pc[p] = "done" /\ Moves(p)) =>
                 /\ pc'[p] = "idle"
                 /\ pending'[p] = None
                 /\ verification'[p] = None
                 /\ UNCHANGED db
      ]_vars

\* C18 witness: the commit of a promotion has failed; the pending
\* registration and its code are stored as loaded and it has no account
C18_Witness ==
    \E p \in Procs :
        /\ pc[p] = "done"
        /\ req[p].op = "verify"
        /\ result[p] = "Error"
        /\ pending[p] \in pendings
        /\ verification[p] \in verifications
        /\ to_user(pending[p]) \notin users

\* C19: a CheckCode that arrives with a pending id of which no row is
\* stored ends at once with InvalidSession; accounts, pending
\* registrations, codes and the throttle map are as before.
C19_MissingPendingIsInvalidSession ==
    [][\A p \in Procs :
          (/\ pc[p] = "idle" /\ Moves(p)
           /\ req'[p].op = "verify"
           /\ \A r \in pendings : r.id # req'[p].pending_id) =>
              /\ pc'[p] = "done"
              /\ result'[p] = "InvalidSession"
              /\ UNCHANGED <<db, recent_resends>>
      ]_vars

\* C19 witness: a CheckCode for a pending registration that had been
\* promoted before ended with InvalidSession
C19_Witness ==
    \E p \in Procs :
        /\ pc[p] = "done"
        /\ req[p].op = "verify"
        /\ result[p] = "InvalidSession"
        /\ \E u \in users : u.username = "alice"
        /\ req[p].pending_id = 1
        /\ pendings = {}

\* C20: in every reachable state no two accounts share a username or an
\* email, however signup and CheckCode requests interleave.
C20_AccountsUnique ==
    \A u, w \in users :
        u # w => (u.username # w.username /\ u.email # w.email)

\* C20 witness: two promotions for one email have raced; one commit has
\* succeeded and the other has failed
C20_Witness ==
    \E p, q \in Procs :
        /\ p # q
        /\ pc[p] = "done" /\ result[p] = "Success"
        /\ pc[q] = "done" /\ result[q] = "Error"
        /\ req[q].op = "verify"
        /\ pending[p].id # pending[q].id
        /\ pending[p].email = pending[q].email
        /\ to_user(pending[p]) \in users
        /\ to_user(pending[q]) \notin users

\* C21 as claimed: in every reachable state no two pending registrations,
\* no two accounts, and no pending registration and account carry the same
\* assigned_id.
C21_AssignedIdUnique ==
    /\ \A q, r \in pendings : q # r => q.assigned_id # r.assigned_id
    /\ \A u, w \in users : u # w => u.assigned_id # w.assigned_id
    /\ \A q \in pendings, u \in users : q.assigned_id # u.assigned_id

\* C22 as claimed: also when CheckCode requests for one pending
\* registration overlap, at most 5 submissions are compared with a code
\* and found wrong.
C22_AtMostFiveWrong == \A i \in PendingIds : wrong[i] <= 5

\* the count stored in the throttle entry of pending id i (0 without entry)
ThrottleCount(i) ==
    IF recent_resends[i] = NoEntry THEN 0 ELSE recent_resends[i][2]

\* the resend requests that have issued a code for pending id i and have not
\* yet written the throttle entry
AwaitingUpdate(i) ==
    {p \in Procs : /\ pc[p] \in {"r_update", "r_update_read",
                                  "r_update_write"}
                   /\ pending[p].id = i}

\* C23 as claimed: also when resend or issue requests for one pending
\* registration overlap, every issue of a code leaves exactly one
\* verification row for that pending id, the row of the code just issued;
\* and the throttle count of the pending id equals the number of admitted
\* resends that have reached their throttle update.
C23_OverlappingResends ==
    /\ [](\A i \in PendingIds :
            ThrottleCount(i) + Cardinality(AwaitingUpdate(i))
                = Len(grants[i]))
    /\ [][\A p \in Procs :
            Issues(p) =>
                /\ Cardinality({v \in verifications' :
                        v.pending_user_id = pending[p].id}) = 1
                /\ \A v \in verifications' :
                        v.pending_user_id = pending[p].id
                            => v.code = code'[p]]_vars

\* C24 as claimed: the first three resend requests of every pending
\* registration pass the throttle check, whatever was resent for earlier
\* pending registrations, also for one whose numeric id it has taken over.
C24_FirstThreeAdmitted ==
    [][\A p \in Procs :
        (pc[p] = "r_throttle" /\ Moves(p)
            /\ Len(grants[pending[p].id]) < MAX_RESENDS)
        => pc'[p] = "r_code"]_vars

\* C25: the throttle count of a pending id never decreases and an entry is
\* never removed; so from the third admitted resend on, every admitted
\* resend comes at least RESEND_WINDOW after the admitted resend before it.
C25_CountNeverResets ==
    /\ [][\A i \in PendingIds :
            /\ ThrottleCount(i)' >= ThrottleCount(i)
            /\ recent_resends[i] # NoEntry => recent_resends'[i] # NoEntry]_vars
    /\ [](\A i \in PendingIds :
            \A k \in 1..Len(grants[i]) :
                k > MAX_RESENDS
                    => grants[i][k] - grants[i][k - 1] >= RESEND_WINDOW)

\* a fourth resend has been admitted and counted
C25_Witness ==
    /\ Len(grants[1]) = MAX_RESENDS + 1
    /\ ThrottleCount(1) = MAX_RESENDS + 1

\* C26 as claimed: whenever a signup request ends without putting a pending
\* id into the session (every result but Sent), the pending registration
\* it created, if any, and every code of it are gone from the store.
C26_NoSessionNoRows ==
    [][\A p \in Procs :
        (/\ req'[p].op = "signup"
         /\ pc[p] # "done" /\ pc'[p] = "done"
         /\ result'[p] # "Sent") =>
            \/ pending'[p] = None
            \/ /\ \A q \in pendings' : q.id # pending'[p].id
               /\ \A v \in verifications' :
                      v.pending_user_id # pending'[p].id]_vars

\* the pending registration p has loaded is past its own expires_at
LoadedPendingOld(p) == pending[p] # None /\ now > pending[p].expires_at

\* C27: the expires_at of the pending registration plays no part in a
\* verify request: a stored pending registration is loaded also past its
\* expires_at; with a newest code that matches, is unlocked and is live it
\* passes the code check; with no account of its username or email it goes
\* on to the promotion, and the promotion creates the account and removes
\* the pending registration.
C27_OldPendingPromoted ==
    [][\A p \in Procs :
        /\ (/\ pc[p] = "idle" /\ Moves(p) /\ req'[p].op = "verify"
            /\ \E q \in pendings : /\ q.id = req'[p].pending_id
                                    /\ now > q.expires_at)
              => pc'[p] = "v_load_code"
        /\ (/\ pc[p] = "v_load_code" /\ Moves(p) /\ LoadedPendingOld(p)
            /\ \E v \in LatestVerifications(pending[p].id) :
                    /\ v.code = req[p].code
                    /\ v.attempts < MAX_ATTEMPTS
                    /\ now <= v.expires_at)
              => pc'[p] = "v_check_user"
        /\ (/\ pc[p] = "v_check_user" /\ Moves(p) /\ LoadedPendingOld(p)
            /\ ~UserWithEmail(pending[p].email))
              => pc'[p] = "v_check_username"
        /\ (/\ pc[p] = "v_check_username" /\ Moves(p) /\ LoadedPendingOld(p)
            /\ ~UserWithUsername(pending[p].username))
              => pc'[p] = "v_promote"
        /\ (pc[p] = "v_promote" /\ Moves(p) /\ LoadedPendingOld(p))
              => /\ pc'[p] = "v_welcome"
                 /\ to_user(pending[p]) \in users'
                 /\ \A q \in pendings' : q.id # pending[p].id
      ]_vars

\* C27 witness: a pending registration has been promoted after its
\* expires_at
C27_Witness ==
    \E p \in Procs :
        /\ pc[p] = "v_welcome"
        /\ LoadedPendingOld(p)
        /\ to_user(pending[p]) \in users

\* C28 as claimed: a request that has sent a welcome mail has committed the
\* promotion of its pending registration: the account is stored and the
\* pending registration is gone; a request that ends without a committed
\* promotion has sent no welcome mail.
C28_WelcomeAfterCommit ==
    \A p \in Procs :
        (\E m \in sent[p] : m[1] = "welcome") =>
            /\ \E u \in users : /\ u.email = pending[p].email
                                  /\ u.assigned_id = pending[p].assigned_id
            /\ pc[p] = "done" => result[p] = "Success"

\* C29: when an admitted resend has ended with a delivery failure, its
\* pending registration is still stored, the only code stored for it is the
\* one this resend issued (unused, valid for CODE_TTL or more from the
\* time the request took for the throttle),
\* and the throttle entry carries the time of this resend and counts it.
C29_UndeliveredResendCounts ==
    \A p \in Procs :
        (/\ pc[p] = "done" /\ req[p].op = "resend"
         /\ result[p] = "DeliveryFailure") =>
            /\ PendingGet(pending[p].id) = pending[p]
            /\ \A v \in VerificationsOf(pending[p].id) :
                   /\ v.code = code[p]
                   /\ v.attempts = 0
                   /\ v.expires_at >= current_time[p] + CODE_TTL
            /\ Cardinality(VerificationsOf(pending[p].id)) = 1
            /\ recent_resends[pending[p].id] =
                   <<current_time[p], Len(grants[pending[p].id])>>
            /\ LastGrant(pending[p].id) = current_time[p]
            /\ sent[p] = {}

\* C29 witness: the second resend of a pending registration, asked for
\* after its first code was used up, has ended with a delivery failure
C29_Witness ==
    \E p \in Procs :
        /\ pc[p] = "done" /\ req[p].op = "resend"
        /\ result[p] = "DeliveryFailure"
        /\ ThrottleCount(pending[p].id) = 2
        /\ unlocked[pending[p].id]

\* a code is issued with 0 attempts
IssuedUnused(p) ==
    Issues(p) =>
        \A v \in verifications' :
            v.pending_user_id = pending[p].id => v.attempts = 0

\* the commit after a wrong submission acts on a code that is stored with
\* fewer than MAX_ATTEMPTS attempts
CountsBelowLimit(p) ==
    (pc[p] = "v_wrong" /\ Moves(p)) =>
        /\ verification[p].attempts < MAX_ATTEMPTS
        /\ \A v \in verifications :
               v.id = verification[p].id => v.attempts < MAX_ATTEMPTS

\* C30: while the verify requests of a pending registration do not overlap,
\* every stored code has between 0 and MAX_ATTEMPTS attempts; a code is
\* issued with 0 attempts, and no step raises the attempts of a code that
\* has MAX_ATTEMPTS of them.
C30_AttemptsInRange ==
    /\ [](\A v \in verifications : v.attempts \in 0..MAX_ATTEMPTS)
    /\ [][\A p \in Procs : IssuedUnused(p) /\ CountsBelowLimit(p)]_vars

\* C30 witness: a code has MAX_ATTEMPTS attempts and a further wrong
\* submission has been refused
C30_Witness ==
    \E p \in Procs :
        /\ pc[p] = "done"
        /\ result[p] = "TooManyAttempts"
        /\ \E v \in VerificationsOf(pending[p].id) :
               v.attempts = MAX_ATTEMPTS

=============================================================================
